---- MODULE Spec2Model ----
(***************************************************************************)
(* Rainbow tables of hashassin-core: the reduction function, the chain     *)
(* builder, the table codec and the cracker of src/core/src/rainbow.rs,    *)
(* with the digest provider of src/core/src/hashing.rs.                    *)
(*                                                                         *)
(* Numbers.  TLC's integers have 32 bits, the program's charset_size and   *)
(* unicode_offset have 128.  A u128 is modelled as its eight base-65536    *)
(* digits, most significant first; bytes are 0..255; strings and files are *)
(* sequences of bytes.                                                     *)
(***************************************************************************)
EXTENDS Integers, Sequences, FiniteSets, TLC

VARIABLES
    pc,               \* position of the running command
    overflow_checks,  \* build profile: TRUE = debug (overflow panics), FALSE = release (wraps)
    seed,             \* which digest function of the modelled family is in use
    r_args,           \* arguments of a direct call of reduce
    r_out,            \* its outcome
    args,             \* arguments of the running command
    pw_file,          \* the password list: its lines
    table_file,       \* the rainbow-table file: [exists, bytes]
    passwords,        \* generate_rainbow_table: the passwords read
    running,          \* work items a pool thread is executing
    slots,            \* work item -> its outcome, NoOutcome until it finished
    order,            \* work items in the order they finished
    result,           \* the command's outcome
    damage,           \* what was done to the table file after it was written
    table,            \* the outcome of parse_rainbow
    printed,          \* the chain lines dump_rainbow_table printed
    targets,          \* the passwords whose digests the hash file holds
    hash_file,        \* the hash file: [exists, bytes]
    hashes,           \* crack: the target digests read
    output            \* crack: the lines written

vars == <<pc, overflow_checks, seed, r_args, r_out, args, pw_file, table_file,
          passwords, running, slots, order, result, damage, table, printed,
          targets, hash_file, hashes, output>>

-----------------------------------------------------------------------------
(* u128 arithmetic, as far as reduce and the header codec use it *)

Radix == 256 * 256
Limbs == 1..8

\* the u128 with value n, for 0 <= n < Radix
U(n) == [i \in Limbs |-> IF i = 8 THEN n ELSE 0]

\* 2^32: the smallest offset that `as u32` truncates
TwoTo32 == [i \in Limbs |-> IF i = 6 THEN 1 ELSE 0]

\* u128::MAX
MaxU128 == [i \in Limbs |-> Radix - 1]

IsZero(x) == \A i \in Limbs : x[i] = 0

\* x fits one digit below 2^15, so that x can divide in 32-bit arithmetic
IsSmall(x) == (\A i \in 1..7 : x[i] = 0) /\ x[8] <= Radix \div 2

\* u128::to_be_bytes
to_be_bytes(x) ==
    [j \in 1..16 |-> IF j % 2 = 1 THEN x[(j + 1) \div 2] \div 256
                                   ELSE x[j \div 2] % 256]

\* u128::from_be_bytes of a 16-byte slice
from_be_bytes(bs) == [i \in Limbs |-> bs[2 * i - 1] * 256 + bs[2 * i]]

\* x.wrapping_shl(8).wrapping_add(b) for a byte b: the shift clears the low
\* byte, so the addition never carries
ShlAdd(x, b) ==
    [i \in Limbs |-> (x[i] % 256) * 256 + (IF i < 8 THEN x[i + 1] \div 256 ELSE b)]

\* x % m for 1 <= m <= 2^15, by long division
RECURSIVE RemFrom(_, _, _, _)
RemFrom(x, m, i, rem) ==
    IF i > 8 THEN rem ELSE RemFrom(x, m, i + 1, (rem * Radix + x[i]) % m)
Rem(x, m) == RemFrom(x, m, 1, 0)

\* x + r for 0 <= r < Radix: the wrapped sum and whether it overflowed 128 bits
RECURSIVE CarryInto(_, _, _)
CarryInto(x, r, i) ==
    IF i = 8 THEN r ELSE (x[i + 1] + CarryInto(x, r, i + 1)) \div Radix
AddSmall(x, r) ==
    [val   |-> [i \in Limbs |-> (x[i] + CarryInto(x, r, i)) % Radix],
     carry |-> (x[1] + CarryInto(x, r, 1)) \div Radix > 0]

\* `code_point as u32`: the low 32 bits, as <<high half, low half>>
AsU32(x) == <<x[7], x[8]>>

\* char::from_u32: a scalar value is at most 0x10FFFF and no surrogate
IsScalar(v) ==
    \/ v[1] = 0 /\ (v[2] < 55296 \/ v[2] >= 57344)
    \/ v[1] \in 1..16

\* char::is_ascii
IsAscii(v) == v[1] = 0 /\ v[2] <= 127

-----------------------------------------------------------------------------
(* Outcomes: Ok(value), Err(error) or a panic of the thread *)

Ok(v)    == [tag |-> "Ok",    val |-> v,    err |-> ""]
Err(e)   == [tag |-> "Err",   val |-> <<>>, err |-> e]
Panic(e) == [tag |-> "Panic", val |-> <<>>, err |-> e]
NoOutcome == [tag |-> "None", val |-> <<>>, err |-> ""]

\* a file: absent, or present with its bytes
NoFile == [exists |-> FALSE, bytes |-> <<>>]
File(bs) == [exists |-> TRUE, bytes |-> bs]

-----------------------------------------------------------------------------
(* reduce, rainbow.rs 149-184 *)

\* hash.iter().cycle(): the byte at 0-based position pos of the endless
\* repetition of hash; an empty hash yields nothing and unwrap_or gives 0
CycleByte(hash, pos) ==
    IF Len(hash) = 0 THEN 0 ELSE hash[(pos % Len(hash)) + 1]

\* the inner loop: code_point starts at offset and takes four bytes
Accumulate(hash, pos, offset) ==
    ShlAdd(ShlAdd(ShlAdd(ShlAdd(offset, CycleByte(hash, pos)),
                         CycleByte(hash, pos + 1)),
                  CycleByte(hash, pos + 2)),
           CycleByte(hash, pos + 3))

\* one character of the password: Ok(<<char>>), UnicodeError or a panic
ReduceChar(hash, pos, charset_size, offset) ==
    IF IsZero(charset_size)
    THEN Panic("remainder with a divisor of zero")
    ELSE LET sum == AddSmall(offset, Rem(Accumulate(hash, pos, offset), charset_size[8]))
             v   == AsU32(sum.val)
         IN  IF sum.carry /\ overflow_checks THEN Panic("add with overflow")
             ELSE IF ~IsScalar(v) THEN Err("UnicodeError")
             ELSE IF ~IsAscii(v) THEN Err("UnicodeError")
             ELSE Ok(<<v[2]>>)

RECURSIVE ReduceFrom(_, _, _, _, _, _)
ReduceFrom(hash, password_length, charset_size, offset, k, password) ==
    IF k = password_length THEN Ok(password)
    ELSE LET c == ReduceChar(hash, 4 * k, charset_size, offset)
         IN  IF c.tag # "Ok" THEN c
             ELSE ReduceFrom(hash, password_length, charset_size, offset,
                             k + 1, password \o c.val)

reduce(hash, password_length, charset_size, offset) ==
    ReduceFrom(hash, password_length, charset_size, offset, 0, <<>>)

-----------------------------------------------------------------------------
(* Direct calls of reduce *)

MaxReduceLen == 2

ReduceDigests ==
    { <<>>, <<7>>, <<1, 2, 3>>, <<0, 0, 0, 5>>, <<0, 0, 1, 0, 9>>,
      <<255, 255, 255, 255, 0, 0, 0, 1>> }
ReduceCharsets == { U(0), U(1), U(2), U(3), U(95), U(200) }
ReduceOffsets ==
    { U(0), U(32), U(97), U(127), U(128), U(55295), TwoTo32,
      AddSmall(TwoTo32, 65).val, MaxU128 }

ReduceInit ==
    /\ pc = "reduce"
    /\ overflow_checks \in BOOLEAN
    /\ r_args \in [hash : ReduceDigests, password_length : 0..MaxReduceLen,
                   charset_size : ReduceCharsets, offset : ReduceOffsets]
    /\ r_out = NoOutcome
    /\ seed = 0
    /\ args = <<>>
    /\ pw_file = <<>>
    /\ table_file = NoFile
    /\ passwords = <<>>
    /\ running = {}
    /\ slots = <<>>
    /\ order = <<>>
    /\ result = NoOutcome
    /\ damage = "none"
    /\ table = NoOutcome
    /\ printed = <<>>
    /\ targets = <<>>
    /\ hash_file = NoFile
    /\ hashes = <<>>
    /\ output = <<>>

ReduceCall ==
    /\ pc = "reduce"
    /\ r_out' = reduce(r_args.hash, r_args.password_length,
                       r_args.charset_size, r_args.offset)
    /\ pc' = "reduced"
    /\ UNCHANGED <<overflow_checks, seed, r_args, args, pw_file, table_file,
                   passwords, running, slots, order, result, damage, table, printed,
                   targets, hash_file, hashes, output>>

ReduceNext == ReduceCall

SpecReduce == ReduceInit /\ [][ReduceNext]_vars

-----------------------------------------------------------------------------
(* Algorithm, hashing.rs 29-40, and its helper trait, rainbow.rs 463-490 *)

Algorithms == {"Md5", "Sha256", "Sha3_512", "Scrypt"}

\* the canonical lowercase names, as ASCII bytes
Name_md5     == <<109, 100, 53>>
Name_sha256  == <<115, 104, 97, 50, 53, 54>>
Name_sha3512 == <<115, 104, 97, 51, 45, 53, 49, 50>>
Name_scrypt  == <<115, 99, 114, 121, 112, 116>>

\* algorithm.to_string(): the canonical lowercase name of the algorithm
to_string(algorithm) ==
    CASE algorithm = "Md5"      -> Name_md5
      [] algorithm = "Sha256"   -> Name_sha256
      [] algorithm = "Sha3_512" -> Name_sha3512
      [] algorithm = "Scrypt"   -> Name_scrypt

\* AlgorithmExt::from_str: Some(algorithm) as Ok, None as Err
from_str(s) ==
    CASE s = Name_md5     -> Ok("Md5")
      [] s = Name_sha256  -> Ok("Sha256")
      [] s = Name_sha3512 -> Ok("Sha3_512")
      [] s = Name_scrypt  -> Ok("Scrypt")
      [] OTHER            -> Err("None")

\* AlgorithmExt::hash_size
hash_size(algorithm) ==
    CASE algorithm = "Md5"      -> 16
      [] algorithm = "Sha256"   -> 32
      [] algorithm = "Sha3_512" -> 64
      [] algorithm = "Scrypt"   -> 91

-----------------------------------------------------------------------------
(* The digest provider, hashing.rs 115-150.  MD5, SHA-256 and SHA3-512 are  *)
(* modelled by a family of deterministic functions, one per seed, that are *)
(* injective on passwords and differ between algorithms; Scrypt by its     *)
(* output format, in which the fresh random salt of every call appears.    *)

\* a password as a number: its bytes in base 256 behind a leading 1
RECURSIVE StrCode(_, _, _)
StrCode(password, i, acc) ==
    IF i > Len(password) THEN acc ELSE StrCode(password, i + 1, acc * 256 + password[i])

AlgIndex(algorithm) ==
    CASE algorithm = "Md5"      -> 0
      [] algorithm = "Sha256"   -> 1
      [] algorithm = "Sha3_512" -> 2
      [] algorithm = "Scrypt"   -> 3

DigestWord(password, algorithm) ==
    StrCode(password, 1, 1) * (seed + 1) + seed + AlgIndex(algorithm)

BE32(w) == <<w \div (256 * Radix), (w \div Radix) % 256, (w \div 256) % 256, w % 256>>

\* "$scrypt$ln=14,r=8,p=1$"
ScryptPrefix ==
    <<36, 115, 99, 114, 121, 112, 116, 36, 108, 110, 61, 49, 52, 44,
      114, 61, 56, 44, 112, 61, 49, 36>>

\* the 24 characters of the salt and the 44 characters of the derived key
ScryptSalt(salt) == [j \in 1..24 |-> IF j <= Len(salt) THEN salt[j] ELSE 65]
ScryptKey(w) == [j \in 1..44 |-> IF j <= 4 THEN BE32(w)[j] ELSE 61]

\* compute_hash; `salt` stands for the 16 random bytes thread_rng yields in
\* the Scrypt branch and is not read by the other branches
compute_hash(password, algorithm, salt) ==
    IF algorithm = "Scrypt"
    THEN ScryptPrefix \o ScryptSalt(salt) \o <<36>>
                      \o ScryptKey(DigestWord(password, algorithm))
    ELSE [j \in 1..hash_size(algorithm) |->
              BE32(DigestWord(password, algorithm) + ((j - 1) \div 4))[((j - 1) % 4) + 1]]

\* compute_hash_rainbow, rainbow.rs 139-147: compute_hash with its errors
\* renamed; compute_hash has none for the fixed Scrypt parameters
compute_hash_rainbow(password, algorithm, salt) == compute_hash(password, algorithm, salt)

-----------------------------------------------------------------------------
(* The chain builder: the closure of generate_rainbow_table, rainbow.rs 102-110 *)

\* a chain loop that tests num_links after the link instead of before it
RECURSIVE ChainFromLinkFirst(_, _, _, _, _, _)
ChainFromLinkFirst(start, current, j, k, password_length, a) ==
    LET hash == compute_hash_rainbow(current, a.algorithm, <<1, k, j>>)
        next == reduce(hash, password_length, a.charset_size, a.unicode_offset)
    IN  IF next.tag # "Ok" THEN next
        ELSE IF j + 1 >= a.num_links THEN Ok(<<start, next.val>>)
        ELSE ChainFromLinkFirst(start, next.val, j + 1, k, password_length, a)

\* the links from number j on, for work item k; salts are fresh per call
RECURSIVE ChainFrom(_, _, _, _, _, _)
ChainFrom(start, current, j, k, password_length, a) ==
    IF j = a.num_links THEN Ok(<<start, current>>)
    ELSE LET hash == compute_hash_rainbow(current, a.algorithm, <<1, k, j>>)
             next == reduce(hash, password_length, a.charset_size, a.unicode_offset)
         IN  IF next.tag # "Ok" THEN next
             ELSE ChainFrom(start, next.val, j + 1, k, password_length, a)

BuildChain(pws, k, a) == ChainFrom(pws[k], pws[k], 0, k, Len(pws[1]), a)

-----------------------------------------------------------------------------
(* The table codec, encoding: write_header, rainbow.rs 186-211, and the    *)
(* record loop, rainbow.rs 126-129 *)

MAGIC_WORD == <<114, 97, 105, 110, 98, 111, 119, 116, 97, 98, 108, 101>>
VERSION == 1
U8_MAX == 255

write_header(algorithm, password_length, charset_size, num_links, offset) ==
    IF password_length > U8_MAX THEN Err("InvalidHeader")
    ELSE Ok(MAGIC_WORD \o <<VERSION>>
            \o <<Len(to_string(algorithm))>> \o to_string(algorithm)
            \o <<password_length>>
            \o to_be_bytes(charset_size)
            \o to_be_bytes(U(num_links))
            \o to_be_bytes(offset))

RECURSIVE Records(_, _)
Records(chains, i) ==
    IF i > Len(chains) THEN <<>>
    ELSE chains[i][1] \o chains[i][2] \o Records(chains, i + 1)

\* File::create, write_header and the records: the file left behind and the
\* outcome; a refused header leaves the created file empty
WriteTable(algorithm, password_length, charset_size, num_links, offset, chains) ==
    LET header == write_header(algorithm, password_length, charset_size, num_links, offset)
    IN  IF header.tag # "Ok"
        THEN [file |-> File(<<>>), outcome |-> header]
        ELSE [file |-> File(header.val \o Records(chains, 1)), outcome |-> Ok(<<>>)]

-----------------------------------------------------------------------------
(* The table codec, decoding: parse_rainbow, rainbow.rs 333-401 *)

\* buffer.starts_with(prefix)
StartsWith(buffer, prefix) ==
    Len(buffer) >= Len(prefix) /\ SubSeq(buffer, 1, Len(prefix)) = prefix

\* std::str::from_utf8 accepts s: well-formed UTF-8 from position i on
RECURSIVE IsUtf8From(_, _)
IsUtf8From(s, i) ==
    LET Cont(j, lo, hi) == j <= Len(s) /\ s[j] >= lo /\ s[j] <= hi
        b == s[i]
    IN  IF i > Len(s) THEN TRUE
        ELSE IF b <= 127 THEN IsUtf8From(s, i + 1)
        ELSE IF b \in 194..223 THEN Cont(i + 1, 128, 191) /\ IsUtf8From(s, i + 2)
        ELSE IF b \in 224..239
        THEN /\ Cont(i + 1, IF b = 224 THEN 160 ELSE 128, IF b = 237 THEN 159 ELSE 191)
             /\ Cont(i + 2, 128, 191)
             /\ IsUtf8From(s, i + 3)
        ELSE IF b \in 240..244
        THEN /\ Cont(i + 1, IF b = 240 THEN 144 ELSE 128, IF b = 244 THEN 143 ELSE 191)
             /\ Cont(i + 2, 128, 191)
             /\ Cont(i + 3, 128, 191)
             /\ IsUtf8From(s, i + 4)
        ELSE FALSE
IsUtf8(s) == IsUtf8From(s, 1)

\* `u128 as usize`, for the values below 2^31 that TLC can hold
AsUsize(x) == x[7] * Radix + x[8]

\* data.chunks(size), size > 0: the chunks in order, the last one shorter
\* when size does not divide the length
RECURSIVE Chunks(_, _)
Chunks(data, size) ==
    IF Len(data) = 0 THEN <<>>
    ELSE IF Len(data) <= size THEN <<data>>
    ELSE <<SubSeq(data, 1, size)>> \o Chunks(SubSeq(data, size + 1, Len(data)), size)

\* HashMap::insert that keeps the value already stored under a key
InsertKeepFirst(map, key, value) ==
    [k \in DOMAIN map \cup {key} |-> IF k \in DOMAIN map THEN map[k] ELSE value]

\* HashMap::insert
Insert(map, key, value) ==
    [k \in DOMAIN map \cup {key} |-> IF k = key THEN value ELSE map[k]]

\* a scan that gives up, with an empty index, at a short chunk
RECURSIVE ScanChainsStrict(_, _, _, _)
ScanChainsStrict(chunks, i, password_length, end_map) ==
    IF i > Len(chunks) THEN end_map
    ELSE IF Len(chunks[i]) # 2 * password_length THEN <<>>
    ELSE ScanChainsStrict(chunks, i + 1, password_length,
                    Insert(end_map,
                           SubSeq(chunks[i], password_length + 1, 2 * password_length),
                           SubSeq(chunks[i], 1, password_length)))

\* rainbow.rs 383-389: the scan over the chunks, from chunk i on
RECURSIVE ScanChains(_, _, _, _)
ScanChains(chunks, i, password_length, end_map) ==
    IF i > Len(chunks) THEN end_map
    ELSE IF Len(chunks[i]) # 2 * password_length THEN end_map
    ELSE ScanChains(chunks, i + 1, password_length,
                    Insert(end_map,
                           SubSeq(chunks[i], password_length + 1, 2 * password_length),
                           SubSeq(chunks[i], 1, password_length)))

\* the empty HashMap
EmptyMap == [k \in {} |-> <<>>]

OutOfBounds == Panic("index out of bounds")

parse_rainbow(file) ==
    IF ~file.exists THEN Err("Io")
    ELSE LET buffer == file.bytes
             len    == Len(buffer)
         IN
         IF ~StartsWith(buffer, MAGIC_WORD) THEN Err("InvalidMagic")
         ELSE IF len < Len(MAGIC_WORD) + 1 THEN OutOfBounds
         ELSE IF buffer[Len(MAGIC_WORD) + 1] # VERSION THEN Err("InvalidHeader")
         ELSE IF len < Len(MAGIC_WORD) + 2 THEN OutOfBounds
         ELSE LET algorithm_len == buffer[Len(MAGIC_WORD) + 2]
                  name_at       == Len(MAGIC_WORD) + 2
              IN
              IF len < name_at + algorithm_len THEN OutOfBounds
              ELSE LET algorithm_str == SubSeq(buffer, name_at + 1, name_at + algorithm_len)
                       cursor        == name_at + algorithm_len
                   IN
                   IF ~IsUtf8(algorithm_str) THEN Err("InvalidAlgorithm")
                   ELSE IF len < cursor + 1 THEN OutOfBounds
                   ELSE IF len < cursor + 1 + 48 THEN OutOfBounds
                   ELSE LET password_length == buffer[cursor + 1]
                            charset_size == from_be_bytes(SubSeq(buffer, cursor + 2, cursor + 17))
                            num_links    == AsUsize(from_be_bytes(SubSeq(buffer, cursor + 18, cursor + 33)))
                            offset       == from_be_bytes(SubSeq(buffer, cursor + 34, cursor + 49))
                            rest         == SubSeq(buffer, cursor + 50, len)
                            algorithm    == from_str(algorithm_str)
                        IN
                        IF 2 * password_length = 0
                        THEN Panic("chunk size must be non-zero")
                        ELSE IF algorithm.tag # "Ok" THEN Err("InvalidAlgorithm")
                        ELSE Ok([algorithm       |-> algorithm.val,
                                 password_length |-> password_length,
                                 num_links       |-> num_links,
                                 charset_size    |-> charset_size,
                                 offset          |-> offset,
                                 end_map         |-> ScanChains(Chunks(rest, 2 * password_length),
                                                               1, password_length, EmptyMap)])

-----------------------------------------------------------------------------
(* dump_rainbow_table, rainbow.rs 213-248 *)

\* String::from_utf8_lossy on the bytes of a start or an end: ASCII is kept;
\* a byte outside ASCII is shown as U+FFFD here
from_utf8_lossy(bs) == [i \in 1..Len(bs) |-> IF bs[i] <= 127 THEN bs[i] ELSE 65533]

\* rainbow.rs 233-244: the lines printed for the chunks from chunk i on
RECURSIVE DumpLines(_, _, _)
DumpLines(chunks, i, pw_len) ==
    IF i > Len(chunks) THEN <<>>
    ELSE IF Len(chunks[i]) # 2 * pw_len THEN <<>>
    ELSE <<<<from_utf8_lossy(SubSeq(chunks[i], 1, pw_len)),
             from_utf8_lossy(SubSeq(chunks[i], pw_len + 1, 2 * pw_len))>>>>
         \o DumpLines(chunks, i + 1, pw_len)

\* the outcome and the chain lines printed
dump_rainbow_table(file) ==
    LET parsed == parse_rainbow(file)
    IN  IF parsed.tag # "Ok" THEN [outcome |-> [parsed EXCEPT !.val = <<>>], lines |-> <<>>]
        ELSE LET header_size == Len(MAGIC_WORD) + 1 + 1
                                  + Len(to_string(parsed.val.algorithm)) + 1 + 16 + 16 + 16
                 chain_size  == 2 * parsed.val.password_length
                 data        == SubSeq(file.bytes, header_size + 1, Len(file.bytes))
             IN  [outcome |-> Ok(<<>>),
                  lines   |-> DumpLines(Chunks(data, chain_size), 1,
                                        parsed.val.password_length)]

-----------------------------------------------------------------------------
(* generate_rainbow_table, rainbow.rs 60-137 *)

\* read_passwords, password.rs 112-129: the lines, or InvalidLength at the
\* first line whose length differs from the first line's
read_passwords(lines) ==
    IF \E i \in 2..Len(lines) : Len(lines[i]) # Len(lines[1])
    THEN Err("Password(InvalidLength)")
    ELSE Ok(lines)

\* rainbow.rs 76-97: read, refuse an empty list and varying lengths, build the pool
GenRead ==
    /\ pc = "gen"
    /\ LET read == read_passwords(pw_file)
       IN  IF read.tag # "Ok"
           THEN /\ result' = read
                /\ pc' = "done"
                /\ UNCHANGED <<passwords, slots,
                   targets, hash_file, hashes, output>>
           ELSE IF Len(read.val) = 0
           THEN /\ result' = Err("EmptyInput")
                /\ pc' = "done"
                /\ UNCHANGED <<passwords, slots,
                   targets, hash_file, hashes, output>>
           ELSE IF \E i \in 1..Len(read.val) : Len(read.val[i]) # Len(read.val[1])
           THEN /\ result' = Err("VaryingLengths")
                /\ pc' = "done"
                /\ UNCHANGED <<passwords, slots,
                   targets, hash_file, hashes, output>>
           ELSE /\ passwords' = read.val
                /\ slots' = [k \in 1..Len(read.val) |-> NoOutcome]
                /\ pc' = "gen_work"
                /\ UNCHANGED result
    /\ UNCHANGED <<overflow_checks, seed, r_args, r_out, args, pw_file, table_file,
                   running, order, damage, table, printed,
                   targets, hash_file, hashes, output>>

Failed(o) == o.tag \in {"Err", "Panic"}

\* a pool thread takes up the work item of password k
GenStart(k) ==
    /\ pc = "gen_work"
    /\ slots[k] = NoOutcome
    /\ k \notin running
    /\ Cardinality(running) < args.threads
    /\ running' = running \cup {k}
    /\ UNCHANGED <<pc, overflow_checks, seed, r_args, r_out, args, pw_file,
                   table_file, passwords, slots, order, result, damage, table, printed,
                   targets, hash_file, hashes, output>>

\* and finishes it: rainbow.rs 102-110
GenFinish(k) ==
    /\ pc = "gen_work"
    /\ k \in running
    /\ running' = running \ {k}
    /\ slots' = [slots EXCEPT ![k] = BuildChain(passwords, k, args)]
    /\ order' = Append(order, k)
    /\ UNCHANGED <<pc, overflow_checks, seed, r_args, r_out, args, pw_file,
                   table_file, passwords, result, damage, table, printed,
                   targets, hash_file, hashes, output>>

\* a collect that appends the results as the work items finish
CollectedAsFinished(s, ord) == [j \in 1..Len(ord) |-> s[ord[j]].val]

\* collect::<Result<Vec<_>, _>>(): the Ok values by position in the input
Collected(s, ord) == [k \in 1..Len(s) |-> s[k].val]

\* rainbow.rs 111-136: the join, then the file.  A panic of a work item is
\* resumed in the caller; an Err stops the iteration, items not yet taken up
\* may never run, and one of the errors seen is returned.
GenCollect ==
    /\ pc = "gen_work"
    /\ running = {}
    /\ \/ \A k \in 1..Len(slots) : slots[k] # NoOutcome
       \/ \E k \in 1..Len(slots) : Failed(slots[k])
    /\ IF \E k \in 1..Len(slots) : slots[k].tag = "Panic"
       THEN /\ result' = (CHOOSE o \in {slots[k] : k \in 1..Len(slots)} : o.tag = "Panic")
            /\ UNCHANGED table_file
       ELSE IF \E k \in 1..Len(slots) : slots[k].tag = "Err"
       THEN /\ \E k \in 1..Len(slots) : slots[k].tag = "Err" /\ result' = slots[k]
            /\ UNCHANGED table_file
       ELSE LET w == WriteTable(args.algorithm, Len(passwords[1]), args.charset_size,
                                args.num_links, args.unicode_offset,
                                Collected(slots, order))
            IN  /\ table_file' = w.file
                /\ result' = w.outcome
    /\ pc' = "done"
    /\ UNCHANGED <<overflow_checks, seed, r_args, r_out, args, pw_file, passwords,
                   running, slots, order, damage, table, printed,
                   targets, hash_file, hashes, output>>

MaxPasswords == 2
MaxLinks == 2
MaxThreads == 2

\* sequences of at most n elements of S
SeqUpTo(S, n) == UNION {[1..m -> S] : m \in 0..n}

\* the digest functions of the family that are tried
Seeds == {0, 1}

GenLines == { <<>>, <<97>>, <<98>>, <<97, 98>> }

\* (charset_size, unicode_offset): inside ASCII, the CLI's default, across
\* the end of ASCII, an empty charset, and the largest offset
GenCharsets ==
    { <<U(2), U(97)>>, <<U(95), U(32)>>, <<U(2), U(127)>>, <<U(0), U(97)>>,
      <<U(2), MaxU128>> }

GenArgs ==
    { [algorithm |-> al, num_links |-> n, threads |-> t,
       charset_size |-> c[1], unicode_offset |-> c[2]] :
      al \in Algorithms, n \in 0..MaxLinks, t \in 1..MaxThreads, c \in GenCharsets }

GenInit ==
    /\ pc = "gen"
    /\ overflow_checks = TRUE
    /\ seed \in Seeds
    /\ r_args = <<>>
    /\ r_out = NoOutcome
    /\ args \in GenArgs
    /\ pw_file \in SeqUpTo(GenLines, MaxPasswords)
    /\ table_file = NoFile
    /\ passwords = <<>>
    /\ running = {}
    /\ slots = <<>>
    /\ order = <<>>
    /\ result = NoOutcome
    /\ damage = "none"
    /\ table = NoOutcome
    /\ printed = <<>>
    /\ targets = <<>>
    /\ hash_file = NoFile
    /\ hashes = <<>>
    /\ output = <<>>

GenNext ==
    \/ GenRead
    \/ \E k \in 1..Len(slots) : GenStart(k)
    \/ \E k \in 1..Len(slots) : GenFinish(k)
    \/ GenCollect

SpecGen == GenInit /\ [][GenNext]_vars

-----------------------------------------------------------------------------
(* The codec on its own: a table is written, the file is possibly damaged   *)
(* behind the program's back, and it is loaded and dumped                  *)

MaxChains == 2
MaxCodecLen == 2

\* two strings of every length
CodecStrings(len) == { [i \in 1..len |-> 97], [i \in 1..len |-> 97 + (i % 2)] }

\* header numbers: the CLI's defaults, and values whose sixteen bytes differ
DistinctBytes == [i \in Limbs |-> (2 * i - 1) * 256 + 2 * i]
CodecScalars ==
    { [charset_size |-> U(95), num_links |-> 3, unicode_offset |-> U(32)],
      [charset_size |-> DistinctBytes, num_links |-> 258, unicode_offset |-> MaxU128],
      [charset_size |-> U(1), num_links |-> 0, unicode_offset |-> TwoTo32] }

CodecInit ==
    /\ pc = "codec"
    /\ overflow_checks = TRUE
    /\ seed = 0
    /\ r_args = <<>>
    /\ r_out = NoOutcome
    /\ \E al \in Algorithms, sc \in CodecScalars, len \in 0..(MaxCodecLen + 1) :
         \E ch \in SeqUpTo(CodecStrings(len) \X CodecStrings(len), MaxChains) :
           args = [algorithm |-> al,
                   \* one length beyond a byte, with no chains
                   password_length |-> IF len > MaxCodecLen THEN U8_MAX + 1 ELSE len,
                   charset_size |-> sc.charset_size, num_links |-> sc.num_links,
                   unicode_offset |-> sc.unicode_offset,
                   chains |-> IF len > MaxCodecLen THEN <<>> ELSE ch]
    /\ pw_file = <<>>
    /\ table_file = NoFile
    /\ passwords = <<>>
    /\ running = {}
    /\ slots = <<>>
    /\ order = <<>>
    /\ result = NoOutcome
    /\ damage = "none"
    /\ table = NoOutcome
    /\ printed = <<>>
    /\ targets = <<>>
    /\ hash_file = NoFile
    /\ hashes = <<>>
    /\ output = <<>>

\* rainbow.rs 114-129 on its own
CodecWrite ==
    /\ pc = "codec"
    /\ LET w == WriteTable(args.algorithm, args.password_length, args.charset_size,
                           args.num_links, args.unicode_offset, args.chains)
       IN  /\ table_file' = w.file
           /\ result' = w.outcome
    /\ pc' = "written"
    /\ UNCHANGED <<overflow_checks, seed, r_args, r_out, args, pw_file, passwords,
                   running, slots, order, damage, table, printed,
                   targets, hash_file, hashes, output>>

\* the file loses its tail: n bytes are left
Truncate(n) ==
    /\ pc = "written"
    /\ damage = "none"
    /\ n < Len(table_file.bytes)
    /\ table_file' = File(SubSeq(table_file.bytes, 1, n))
    /\ damage' = "truncated"
    /\ UNCHANGED <<pc, overflow_checks, seed, r_args, r_out, args, pw_file, passwords,
                   running, slots, order, result, table, printed,
                   targets, hash_file, hashes, output>>

\* byte i of the file (1-based) becomes b
Corrupt(i, b) ==
    /\ pc = "written"
    /\ damage = "none"
    /\ i <= Len(table_file.bytes)
    /\ table_file.bytes[i] # b
    /\ table_file' = File([table_file.bytes EXCEPT ![i] = b])
    /\ damage' = "corrupted"
    /\ UNCHANGED <<pc, overflow_checks, seed, r_args, r_out, args, pw_file, passwords,
                   running, slots, order, result, table, printed,
                   targets, hash_file, hashes, output>>

\* the load that crack and dump_rainbow_table start with
Load ==
    /\ pc = "written"
    /\ table' = parse_rainbow(table_file)
    /\ pc' = "loaded"
    /\ UNCHANGED <<overflow_checks, seed, r_args, r_out, args, pw_file, table_file,
                   passwords, running, slots, order, result, damage, printed,
                   targets, hash_file, hashes, output>>

Dump ==
    /\ pc = "loaded"
    /\ LET d == dump_rainbow_table(table_file)
       IN  /\ result' = d.outcome
           /\ printed' = d.lines
    /\ pc' = "dumped"
    /\ UNCHANGED <<overflow_checks, seed, r_args, r_out, args, pw_file, table_file,
                   passwords, running, slots, order, damage, table,
                   targets, hash_file, hashes, output>>

\* lengths to cut a header to: inside the magic word, at each fixed field,
\* and one byte short of the whole header
HeaderCuts(algorithm) ==
    LET name == Len(to_string(algorithm))
    IN  { 0, Len(MAGIC_WORD) - 1, Len(MAGIC_WORD), Len(MAGIC_WORD) + 1,
          Len(MAGIC_WORD) + 2, Len(MAGIC_WORD) + 2 + name,
          Len(MAGIC_WORD) + 3 + name, Len(MAGIC_WORD) + 3 + name + 16,
          Len(MAGIC_WORD) + 3 + name + 47 }

\* bytes to change: in the magic word, the version, and the name (to a byte
\* that is no UTF-8, and to another letter)
Corruptions(algorithm) ==
    LET name == Len(to_string(algorithm))
    IN  { <<1, 0>>, <<Len(MAGIC_WORD), 0>>, <<Len(MAGIC_WORD) + 1, 0>>,
          <<Len(MAGIC_WORD) + 1, 2>>, <<Len(MAGIC_WORD) + 3, 255>>,
          <<Len(MAGIC_WORD) + 2 + name, 122>> }

CodecNext ==
    \/ CodecWrite
    \/ \E n \in HeaderCuts(args.algorithm) : Truncate(n)
    \/ \E n \in (Len(MAGIC_WORD) + 3 + Len(to_string(args.algorithm)) + 48)
                    ..Len(table_file.bytes) : Truncate(n)
    \/ \E c \in Corruptions(args.algorithm) : Corrupt(c[1], c[2])
    \/ Load
    \/ Dump

SpecCodec == CodecInit /\ [][CodecNext]_vars

-----------------------------------------------------------------------------
(* The hash file: written by generate_hashes, hashing.rs 60-112, and read  *)
(* by parse_hash_file, rainbow.rs 426-461 *)

\* hashing.rs 83-88: the name generate_hashes writes for an algorithm
algorithm_str(algorithm) ==
    CASE algorithm = "Md5"      -> Name_md5
      [] algorithm = "Sha256"   -> Name_sha256
      [] algorithm = "Sha3_512" -> Name_sha3512
      [] algorithm = "Scrypt"   -> Name_scrypt

\* the digests of the passwords from number k on, each with a fresh salt
RECURSIVE HashesFrom(_, _, _)
HashesFrom(pws, k, algorithm) ==
    IF k > Len(pws) THEN <<>>
    ELSE compute_hash(pws[k], algorithm, <<0, k>>) \o HashesFrom(pws, k + 1, algorithm)

\* the file generate_hashes leaves for a non-empty list of passwords of one
\* length: version, name length, name, password length, digests
generate_hashes(pws, algorithm) ==
    File(<<1, Len(algorithm_str(algorithm)) % 256>> \o algorithm_str(algorithm)
         \o <<Len(pws[1]) % 256>> \o HashesFrom(pws, 1, algorithm))

parse_hash_file(file) ==
    IF ~file.exists THEN Err("Io")
    ELSE LET buffer == file.bytes
             len    == Len(buffer)
         IN
         IF len < 3 THEN Err("InvalidHeader")
         ELSE IF buffer[1] # 1 THEN Err("InvalidHeader")
         ELSE LET algorithm_len == buffer[2]
              IN
              IF len < 2 + algorithm_len THEN OutOfBounds
              ELSE LET name       == SubSeq(buffer, 3, 2 + algorithm_len)
                       algorithm  == from_str(name)
                       data_start == 2 + algorithm_len + 1
                   IN
                   IF ~IsUtf8(name) THEN Err("InvalidAlgorithm")
                   ELSE IF algorithm.tag # "Ok" THEN Err("InvalidAlgorithm")
                   ELSE IF len < data_start THEN OutOfBounds
                   ELSE LET chunks == Chunks(SubSeq(buffer, data_start + 1, len),
                                             hash_size(algorithm.val))
                        IN  IF \E i \in 1..Len(chunks) :
                                   Len(chunks[i]) # hash_size(algorithm.val)
                            THEN Err("InvalidHeader")
                            ELSE Ok([algorithm |-> algorithm.val, hashes |-> chunks])

-----------------------------------------------------------------------------
(* The search of crack for one target, rainbow.rs 278-313, and             *)
(* regenerate_chain, rainbow.rs 403-424.  A search yields Some(<<digest,   *)
(* password>>) or Nothing, or the thread panics.  `t` is the table as     *)
(* parse_rainbow returns it; `at` is <<number of the target, position>>    *)
(* and tells the calls apart, for the salts.                               *)

Some(v) == [tag |-> "Some",    val |-> v,    err |-> ""]
Nothing == [tag |-> "Nothing", val |-> <<>>, err |-> ""]

\* a replay that takes the plaintext at hand without comparing its digest
RegenerateUnverified(current, target_hash, steps, j, t, at) ==
    IF j = steps THEN Nothing ELSE Some(<<target_hash, current>>)

\* rainbow.rs 415-423: the steps of the replay from step j on
RECURSIVE Regenerate(_, _, _, _, _, _)
Regenerate(current, target_hash, steps, j, t, at) ==
    IF j = steps THEN Nothing
    ELSE LET hash == compute_hash_rainbow(current, t.algorithm, <<3>> \o at \o <<j>>)
         IN  IF hash = target_hash THEN Some(<<target_hash, current>>)
             ELSE LET next == reduce(hash, t.password_length, t.charset_size, t.offset)
                  IN  IF next.tag # "Ok" THEN next
                      ELSE Regenerate(next.val, target_hash, steps, j + 1, t, at)

\* Ok(Some(_)) is Some, Ok(None) is Nothing, and an Err is an Err
regenerate_chain(start, target_hash, steps, t, at) ==
    IF ~IsUtf8(start) THEN Err("UnicodeError")
    ELSE Regenerate(start, target_hash, steps, 0, t, at)

\* rainbow.rs 280-291: the reduce and digest rounds before position i, from
\* round j on; None is returned at an error
RECURSIVE Rounds(_, _, _, _, _)
Rounds(current_hash, i, j, t, at) ==
    IF j = i THEN Ok(current_hash)
    ELSE LET password == reduce(current_hash, t.password_length, t.charset_size, t.offset)
         IN  IF password.tag = "Err" THEN Nothing
             ELSE IF password.tag = "Panic" THEN password
             ELSE Rounds(compute_hash_rainbow(password.val, t.algorithm,
                                              <<2>> \o at \o <<j>>),
                         i, j + 1, t, at)

\* rainbow.rs 280-296: the end a chain would have with the target at
\* position i
possible_end(target_hash, i, t, at) ==
    LET current_hash == Rounds(target_hash, i, 0, t, at)
    IN  IF current_hash.tag # "Ok" THEN current_hash
        ELSE LET e == reduce(current_hash.val, t.password_length, t.charset_size, t.offset)
             IN  IF e.tag = "Err" THEN Nothing ELSE e

\* rainbow.rs 279-311: the closure of find_map for position i
Position(target_hash, i, t, at) ==
    LET e == possible_end(target_hash, i, t, at)
    IN  IF e.tag # "Ok" THEN e
        ELSE IF e.val \notin DOMAIN t.end_map THEN Nothing
        ELSE LET res == regenerate_chain(t.end_map[e.val], target_hash,
                                         t.num_links - i, t, at)
             IN  IF res.tag \in {"Some", "Panic"} THEN res ELSE Nothing

\* (0..num_links).find_map, from position i on, for target number k
RECURSIVE FindMap(_, _, _, _)
FindMap(target_hash, i, t, k) ==
    IF i >= t.num_links THEN Nothing
    ELSE LET res == Position(target_hash, i, t, <<k, i>>)
         IN  IF res.tag \in {"Some", "Panic"} THEN res
             ELSE FindMap(target_hash, i + 1, t, k)

\* a scan from the last position down to the first
RECURSIVE ScannedDescending(_, _, _, _)
ScannedDescending(target_hash, i, t, k) ==
    IF i >= t.num_links THEN <<>>
    ELSE LET res == Position(target_hash, t.num_links - 1 - i, t,
                             <<k, t.num_links - 1 - i>>)
         IN  IF res.tag \in {"Some", "Panic"} THEN <<t.num_links - 1 - i>>
             ELSE <<t.num_links - 1 - i>> \o ScannedDescending(target_hash, i + 1, t, k)

\* the positions that this find_map calls its closure on, from position i
\* on, in the order of the calls: it stops at the first Some
RECURSIVE Scanned(_, _, _, _)
Scanned(target_hash, i, t, k) ==
    IF i >= t.num_links THEN <<>>
    ELSE LET res == Position(target_hash, i, t, <<k, i>>)
         IN  IF res.tag \in {"Some", "Panic"} THEN <<i>>
             ELSE <<i>> \o Scanned(target_hash, i + 1, t, k)

\* hex::encode
HexDigit(n) == IF n < 10 THEN 48 + n ELSE 87 + n
RECURSIVE HexEncode(_)
HexEncode(bs) ==
    IF Len(bs) = 0 THEN <<>>
    ELSE <<HexDigit(bs[1] \div 16), HexDigit(bs[1] % 16)>> \o HexEncode(Tail(bs))

-----------------------------------------------------------------------------
(* crack, rainbow.rs 250-331, after a generation: the whole program run    *)

\* a comparison that lets every pair of algorithms pass
AlgorithmsNeverDiffer(rainbow_algorithm, hash_algorithm) == FALSE

\* rainbow.rs 267: rainbow_algorithm != hash_algorithm
AlgorithmsDiffer(rainbow_algorithm, hash_algorithm) == rainbow_algorithm # hash_algorithm

\* where the charset_size field of a table header starts and ends
CharsetField(algorithm) ==
    LET cursor == Len(MAGIC_WORD) + 2 + Len(to_string(algorithm))
    IN  (cursor + 2)..(cursor + 17)

\* between the two commands the table file is edited: the charset_size of
\* its header becomes zero
Tamper ==
    /\ pc = "done"
    /\ result.tag = "Ok"
    /\ damage = "none"
    /\ \E i \in CharsetField(args.algorithm) : table_file.bytes[i] # 0
    /\ table_file' = File([i \in 1..Len(table_file.bytes) |->
                              IF i \in CharsetField(args.algorithm) THEN 0
                              ELSE table_file.bytes[i]])
    /\ damage' = "corrupted"
    /\ UNCHANGED <<pc, overflow_checks, seed, r_args, r_out, args, pw_file, passwords,
                   running, slots, order, result, table, printed,
                   targets, hash_file, hashes, output>>

\* generate_hashes has written the hash file for the passwords pws, cut
\* octets short afterwards, and crack is started with `threads` threads
CrackBegin(pws, algorithm, cut, threads) ==
    /\ pc = "done"
    /\ result.tag = "Ok"
    /\ targets' = pws
    /\ hash_file' = LET f == generate_hashes(pws, algorithm)
                    IN  File(SubSeq(f.bytes, 1, Len(f.bytes) - cut))
    /\ args' = [args EXCEPT !.threads = threads]
    /\ passwords' = <<>>
    /\ slots' = <<>>
    /\ order' = <<>>
    /\ result' = NoOutcome
    /\ pc' = "crack"
    /\ UNCHANGED <<overflow_checks, seed, r_args, r_out, pw_file, table_file,
                   running, damage, table, printed, hashes, output>>

\* rainbow.rs 263-273: both files are parsed, the algorithms compared and
\* the pool built
CrackLoad ==
    /\ pc = "crack"
    /\ LET rainbow == parse_rainbow(table_file)
           hash    == parse_hash_file(hash_file)
       IN  /\ table' = rainbow
           /\ IF rainbow.tag # "Ok"
              THEN /\ result' = [rainbow EXCEPT !.val = <<>>]
                   /\ pc' = "cracked"
                   /\ UNCHANGED <<hashes, slots>>
              ELSE IF hash.tag # "Ok"
              THEN /\ result' = [hash EXCEPT !.val = <<>>]
                   /\ pc' = "cracked"
                   /\ UNCHANGED <<hashes, slots>>
              ELSE IF AlgorithmsDiffer(rainbow.val.algorithm, hash.val.algorithm)
              THEN /\ result' = Err("AlgorithmMismatch")
                   /\ pc' = "cracked"
                   /\ UNCHANGED <<hashes, slots>>
              ELSE /\ hashes' = hash.val.hashes
                   /\ slots' = [k \in 1..Len(hash.val.hashes) |-> NoOutcome]
                   /\ pc' = "crack_work"
                   /\ UNCHANGED result
    /\ UNCHANGED <<overflow_checks, seed, r_args, r_out, args, pw_file, table_file,
                   passwords, running, order, damage, printed,
                   targets, hash_file, output>>

\* a pool thread takes up target k
CrackStart(k) ==
    /\ pc = "crack_work"
    /\ slots[k] = NoOutcome
    /\ k \notin running
    /\ Cardinality(running) < args.threads
    /\ running' = running \cup {k}
    /\ UNCHANGED <<pc, overflow_checks, seed, r_args, r_out, args, pw_file,
                   table_file, passwords, slots, order, result, damage, table, printed,
                   targets, hash_file, hashes, output>>

\* and finishes its search: rainbow.rs 278-313
CrackFinish(k) ==
    /\ pc = "crack_work"
    /\ k \in running
    /\ running' = running \ {k}
    /\ slots' = [slots EXCEPT ![k] = FindMap(hashes[k], 0, table.val, k)]
    /\ order' = Append(order, k)
    /\ UNCHANGED <<pc, overflow_checks, seed, r_args, r_out, args, pw_file,
                   table_file, passwords, result, damage, table, printed,
                   targets, hash_file, hashes, output>>

\* a collect that takes the results as the searches finish
RECURSIVE FoundAsFinished(_, _)
FoundAsFinished(s, k) ==
    IF k > Len(order) THEN <<>>
    ELSE (IF s[order[k]].tag = "Some" THEN <<s[order[k]].val>> ELSE <<>>)
         \o FoundAsFinished(s, k + 1)

\* filter_map(..).collect(): the results found, by position of the target
RECURSIVE Found(_, _)
Found(s, k) ==
    IF k > Len(s) THEN <<>>
    ELSE (IF s[k].tag = "Some" THEN <<s[k].val>> ELSE <<>>) \o Found(s, k + 1)

\* rainbow.rs 314-330: the join, the test for an empty batch and the
\* lines written.  A panic of a search is resumed in the caller.
CrackCollect ==
    /\ pc = "crack_work"
    /\ running = {}
    /\ \/ \A k \in 1..Len(slots) : slots[k] # NoOutcome
       \/ \E k \in 1..Len(slots) : slots[k].tag = "Panic"
    /\ LET results == Found(slots, 1)
       IN  IF \E k \in 1..Len(slots) : slots[k].tag = "Panic"
           THEN /\ result' = (CHOOSE o \in {slots[k] : k \in 1..Len(slots)} :
                                 o.tag = "Panic")
                /\ UNCHANGED output
           ELSE IF Len(results) = 0
           THEN /\ result' = Err("NoPasswordsFound")
                /\ UNCHANGED output
           ELSE /\ output' = [j \in 1..Len(results) |->
                                 <<HexEncode(results[j][1]), results[j][2]>>]
                /\ result' = Ok(<<>>)
    /\ pc' = "cracked"
    /\ UNCHANGED <<overflow_checks, seed, r_args, r_out, args, pw_file, table_file,
                   passwords, running, slots, order, damage, table, printed,
                   targets, hash_file, hashes>>

\* the password files the rainbow table is generated from: lists of "a",
\* "b" and "d"
TableLists ==
    { <<<<97>>>>, <<<<100>>>>, <<<<97>>, <<98>>>>, <<<<100>>, <<97>>>> }

\* (charset_size, unicode_offset) of the table: chains that all meet in "a",
\* and chains over "a" and "b"
TableCharsets == { <<U(1), U(97)>>, <<U(2), U(97)>> }

TableArgs ==
    { [algorithm |-> al, num_links |-> n, threads |-> 1,
       charset_size |-> c[1], unicode_offset |-> c[2]] :
      al \in {"Md5", "Scrypt"}, n \in 0..MaxLinks, c \in TableCharsets }

\* the lists of passwords whose digests are to be cracked; "c" is in no table
TargetLists ==
    { <<<<97>>>>, <<<<97>>, <<98>>>>, <<<<99>>, <<97>>>>, <<<<97>>, <<97>>>>,
      <<<<100>>, <<97>>>> }

\* the algorithm of the hash file, and the octets it is cut short by
HashFiles(algorithm) == { <<algorithm, 0>>, <<"Sha256", 0>>, <<algorithm, 1>> }

CrackThreads == {1, 2}

Init ==
    /\ pc = "gen"
    /\ overflow_checks = TRUE
    /\ seed \in Seeds
    /\ r_args = <<>>
    /\ r_out = NoOutcome
    /\ args \in TableArgs
    /\ pw_file \in TableLists
    /\ table_file = NoFile
    /\ passwords = <<>>
    /\ running = {}
    /\ slots = <<>>
    /\ order = <<>>
    /\ result = NoOutcome
    /\ damage = "none"
    /\ table = NoOutcome
    /\ printed = <<>>
    /\ targets = <<>>
    /\ hash_file = NoFile
    /\ hashes = <<>>
    /\ output = <<>>

Next ==
    \/ GenRead
    \/ \E k \in 1..Len(slots) : GenStart(k)
    \/ \E k \in 1..Len(slots) : GenFinish(k)
    \/ GenCollect
    \/ Tamper
    \/ \E pws \in TargetLists, h \in HashFiles(args.algorithm), n \in CrackThreads :
           CrackBegin(pws, h[1], h[2], n)
    \/ CrackLoad
    \/ \E k \in 1..Len(slots) : CrackStart(k)
    \/ \E k \in 1..Len(slots) : CrackFinish(k)
    \/ CrackCollect

Spec == Init /\ [][Next]_vars

-----------------------------------------------------------------------------
(* C9 *)

\* the 128-bit value of x is at most 127
AtMost127(x) == (\A i \in 1..7 : x[i] = 0) /\ x[8] <= 127

\* the code point the claim speaks of, for 0-based character k: the full
\* sum unicode_offset + (accumulator mod charset_size), is greater than 127
CodePointAbove127(a, k) ==
    LET sum == AddSmall(a.offset,
                        Rem(Accumulate(a.hash, 4 * k, a.offset), a.charset_size[8]))
    IN  sum.carry \/ ~AtMost127(sum.val)

\* unicode_offset + charset_size - 1 <= 127, for a charset_size >= 1
CharsetWithinAscii(a) ==
    /\ ~IsZero(a.charset_size)
    /\ IsSmall(a.charset_size)
    /\ LET top == AddSmall(a.offset, a.charset_size[8] - 1)
       IN  ~top.carry /\ AtMost127(top.val)

\* C9: for every digest and every (password_length, charset_size,
\* unicode_offset) the outcome of reduce is a string of exactly
\* password_length ASCII characters or a UnicodeError; it is the string
\* whenever charset_size >= 1 and unicode_offset + charset_size - 1 <= 127,
\* and a UnicodeError whenever some character's code point
\* unicode_offset + (accumulator mod charset_size) is greater than 127.
C9_ReduceAsciiOrUnicodeError ==
    pc = "reduced" =>
        /\ \/ /\ r_out.tag = "Ok"
              /\ Len(r_out.val) = r_args.password_length
              /\ \A i \in 1..Len(r_out.val) : r_out.val[i] <= 127
           \/ r_out = Err("UnicodeError")
        /\ CharsetWithinAscii(r_args) => r_out.tag = "Ok"
        /\ (/\ ~IsZero(r_args.charset_size)
            /\ \E k \in 0..(r_args.password_length - 1) : CodePointAbove127(r_args, k))
           => r_out = Err("UnicodeError")

-----------------------------------------------------------------------------
(* C10 *)

\* the bytes of a table file that hold chain record k (1-based) of records
\* of 2 * len bytes behind a header of hdr bytes: <<start, end>>
RecordAt(bytes, hdr, len, k) ==
    <<SubSeq(bytes, hdr + (k - 1) * 2 * len + 1, hdr + (k - 1) * 2 * len + len),
      SubSeq(bytes, hdr + (k - 1) * 2 * len + len + 1, hdr + k * 2 * len)>>

HeaderLen(algorithm) == Len(MAGIC_WORD) + 3 + Len(to_string(algorithm)) + 48

\* C10: for every thread count and every completion order of the work items,
\* a successful generate_rainbow_table writes exactly one chain record per
\* input password, in the order of the input passwords: record k starts with
\* input password k unchanged and ends with the end of that password's chain.
C10_ChainsInInputOrder ==
    (pc = "done" /\ result.tag = "Ok") =>
        LET n   == Len(pw_file)
            len == Len(pw_file[1])
            hdr == HeaderLen(args.algorithm)
        IN  /\ table_file.exists
            /\ Len(table_file.bytes) = hdr + n * 2 * len
            /\ \A k \in 1..n :
                   /\ RecordAt(table_file.bytes, hdr, len, k)[1] = pw_file[k]
                   /\ RecordAt(table_file.bytes, hdr, len, k)[2]
                          = BuildChain(pw_file, k, args).val[2]

\* two different passwords whose work items finished in the reverse order,
\* on two threads, and the table was written
C10_Witness ==
    /\ pc = "done"
    /\ result.tag = "Ok"
    /\ args.threads = 2
    /\ args.num_links >= 1
    /\ Len(pw_file) = 2
    /\ pw_file[1] # pw_file[2]
    /\ order = <<2, 1>>

-----------------------------------------------------------------------------
(* C3, C6, C7, C8: the codec *)

\* the index that inserting the chains in order gives: every end that
\* occurs, mapped to the start of the last chain with that end
LastIndex(chains) ==
    [e \in {chains[i][2] : i \in 1..Len(chains)} |->
        chains[CHOOSE i \in 1..Len(chains) :
                   /\ chains[i][2] = e
                   /\ \A j \in (i + 1)..Len(chains) : chains[j][2] # e][1]]

\* the complete chain records of the table file, in file order, for a
\* header of hdr bytes and passwords of len >= 1 bytes
FileRecords(hdr, len) ==
    [k \in 1..((Len(table_file.bytes) - hdr) \div (2 * len)) |->
        RecordAt(table_file.bytes, hdr, len, k)]

\* C3: for every algorithm, password_length <= 255, charset_size, num_links,
\* unicode_offset and chain list, decoding what write_header and the record
\* loop wrote yields the same algorithm, password_length, charset_size,
\* num_links and unicode_offset, and the end->start index of inserting the
\* chains in order (a later chain overriding an earlier one with its end).
C3_RoundTrip ==
    (pc \in {"loaded", "dumped"} /\ damage = "none" /\ args.password_length <= U8_MAX) =>
        /\ table.tag = "Ok"
        /\ table.val.algorithm = args.algorithm
        /\ table.val.password_length = args.password_length
        /\ table.val.charset_size = args.charset_size
        /\ table.val.num_links = args.num_links
        /\ table.val.offset = args.unicode_offset
        /\ table.val.end_map = LastIndex(args.chains)

\* the header of the file is whole and the bytes behind it are not a whole
\* number of records of 2 * password_length >= 2 bytes
PartialTail ==
    /\ damage = "truncated"
    /\ args.password_length \in 1..U8_MAX
    /\ Len(table_file.bytes) >= HeaderLen(args.algorithm)
    /\ (Len(table_file.bytes) - HeaderLen(args.algorithm)) % (2 * args.password_length) # 0

\* C6: when the bytes after a valid header are not a whole number of chain
\* records, load and dump both succeed, process exactly the
\* floor(remaining / (2 * password_length)) complete records in file order
\* and ignore the partial one; dump prints the records that load indexes.
C6_TruncatedTailTolerated ==
    (pc = "dumped" /\ PartialTail) =>
        LET recs == FileRecords(HeaderLen(args.algorithm), args.password_length)
        IN  /\ table.tag = "Ok"
            /\ table.val.end_map = LastIndex(recs)
            /\ result = Ok(<<>>)
            /\ printed = recs

\* a file cut inside its second record was loaded and dumped
C6_Witness ==
    /\ pc = "dumped"
    /\ PartialTail
    /\ Len(args.chains) = 2
    /\ Len(printed) = 1
    /\ table.tag = "Ok"
    /\ DOMAIN table.val.end_map = {args.chains[1][2]}

\* C7: after a load, the end->start index has exactly one entry per distinct
\* end value of the complete chain records, and each end maps to the start
\* of the last record in file order that has that end.
C7_LastWriteWins ==
    (pc \in {"loaded", "dumped"} /\ table.tag = "Ok") =>
        LET recs == FileRecords(HeaderLen(table.val.algorithm), table.val.password_length)
            idx  == table.val.end_map
        IN  /\ DOMAIN idx = {recs[k][2] : k \in 1..Len(recs)}
            /\ \A k \in 1..Len(recs) :
                   (\A j \in (k + 1)..Len(recs) : recs[j][2] # recs[k][2])
                       => idx[recs[k][2]] = recs[k][1]

\* two records with one end and different starts were loaded
C7_Witness ==
    /\ pc = "loaded"
    /\ table.tag = "Ok"
    /\ Len(args.chains) = 2
    /\ damage = "none"
    /\ args.chains[1][2] = args.chains[2][2]
    /\ args.chains[1][1] # args.chains[2][1]
    /\ table.val.end_map[args.chains[1][2]] = args.chains[2][1]

\* the file has a structural defect in its header: a changed byte in the
\* magic word, the version or the algorithm name, or a cut inside the header
HeaderDefect ==
    \/ damage = "corrupted"
    \/ damage = "truncated" /\ Len(table_file.bytes) < HeaderLen(args.algorithm)

\* C8: every structural defect of the header (wrong magic, version other
\* than 1, algorithm name not canonical, header incomplete) makes
\* parse_rainbow return InvalidMagic, InvalidHeader or InvalidAlgorithm, and
\* dump then uses no header field and no chain record of the file.
C8_HeaderDefectsAreErrors ==
    (pc \in {"loaded", "dumped"} /\ HeaderDefect) =>
        /\ table.tag = "Err"
        /\ table.err \in {"InvalidMagic", "InvalidHeader", "InvalidAlgorithm"}
        /\ pc = "dumped" => (result.tag = "Err" /\ result.err = table.err /\ printed = <<>>)

-----------------------------------------------------------------------------
(* Claims about crack, checked under Spec *)

Range(f) == {f[x] : x \in DOMAIN f}

\* the line crack writes for the digest d and the password p
OutputLine(d, p) == <<HexEncode(d), p>>

\* C1: for a table that generate_rainbow_table built from the passwords of
\* pw_file with algorithm A, and left as written, cracking a hash file that
\* generate_hashes wrote with A returns, for every target password that
\* is in pw_file, the result (digest, password): crack succeeds and the
\* line of that pair is in its output.
C1_NoFalseNegatives ==
    (/\ pc = "cracked"
     /\ damage = "none"
     /\ hash_file = generate_hashes(targets, args.algorithm))
    => \A k \in 1..Len(targets) :
           targets[k] \in Range(pw_file)
           => /\ result.tag = "Ok"
              /\ OutputLine(compute_hash(targets[k], args.algorithm, <<0, k>>),
                            targets[k]) \in Range(output)

\* the plaintext that j rounds of digest and reduce lead to from a recorded
\* start, in the replay made for target k at position i
RECURSIVE Replayed(_, _, _, _)
Replayed(start, j, t, at) ==
    IF j = 0 THEN Ok(start)
    ELSE LET before == Replayed(start, j - 1, t, at)
         IN  IF before.tag # "Ok" THEN before
             ELSE reduce(compute_hash(before.val, t.algorithm, <<3>> \o at \o <<j - 1>>),
                         t.password_length, t.charset_size, t.offset)

\* the plaintexts on the recorded chains, each with its digest in the
\* replay made for target k: pairs <<digest, plaintext>>
ChainDigests(t, k) ==
    UNION { UNION { { <<compute_hash(Replayed(start, j, t, <<k, i>>).val,
                                     t.algorithm, <<3, k, i, j>>),
                        Replayed(start, j, t, <<k, i>>).val>> :
                      j \in { jj \in 0..(t.num_links - i - 1) :
                                  Replayed(start, jj, t, <<k, i>>).tag = "Ok" } } :
                    i \in 0..(t.num_links - 1) } :
            start \in Range(t.end_map) }

\* p is reached by the replay of a recorded chain and its digest there is d
ForwardVerified(d, p, t, k) == <<d, p>> \in ChainDigests(t, k)

\* d is the digest of a plaintext on a recorded chain
OnSomeChain(d, t, k) == \E pair \in ChainDigests(t, k) : pair[1] = d

\* one of the candidate ends of the target k is in the end index
CandidateHits(k) ==
    \E i \in 0..(table.val.num_links - 1) :
        LET e == possible_end(hashes[k], i, table.val, <<k, i>>)
        IN  e.tag = "Ok" /\ e.val \in DOMAIN table.val.end_map

\* C2: a search of crack yields (d, p) only for its own target d, with p a
\* plaintext reached by replaying a recorded chain from its start whose
\* digest equals d; a target that is the digest of no plaintext on any
\* recorded chain yields no result; and every line written is the line of
\* such a result.
C2_OnlyVerifiedResults ==
    (pc \in {"crack_work", "cracked"} /\ table.tag = "Ok")
    => /\ \A k \in 1..Len(slots) :
              slots[k].tag = "Some"
              => /\ slots[k].val[1] = hashes[k]
                 /\ ForwardVerified(hashes[k], slots[k].val[2], table.val, k)
       /\ \A k \in 1..Len(slots) :
              ~OnSomeChain(hashes[k], table.val, k) => slots[k].tag # "Some"
       /\ \A line \in Range(output) :
              \E k \in 1..Len(slots) :
                  /\ slots[k].tag = "Some"
                  /\ line = OutputLine(hashes[k], slots[k].val[2])

\* a batch in which one target is verified and another, the digest of no
\* plaintext on any chain, hits the end index and yields nothing
C2_Witness ==
    /\ pc = "cracked"
    /\ table.tag = "Ok"
    /\ result.tag = "Ok"
    /\ \E k \in 1..Len(slots) : slots[k].tag = "Some"
    /\ \E k \in 1..Len(slots) :
           /\ slots[k].tag = "Nothing"
           /\ CandidateHits(k)
           /\ ~OnSomeChain(hashes[k], table.val, k)

\* the results of the searches, in the order of the targets, as lines
RECURSIVE VerifiedLines(_, _)
VerifiedLines(s, k) ==
    IF k > Len(s) THEN <<>>
    ELSE (IF s[k].tag = "Some" THEN <<OutputLine(s[k].val[1], s[k].val[2])>> ELSE <<>>)
         \o VerifiedLines(s, k + 1)

\* C4: once both files are read and their algorithms agree, the outcome of
\* crack is NoPasswordsFound exactly when no target yields a verified
\* result; with a verified target crack succeeds and writes exactly the
\* verified targets; and every search ends with a result or with nothing,
\* so that a failing target is only omitted.
C4_BatchOutcome ==
    (/\ pc = "cracked"
     /\ table.tag = "Ok"
     /\ parse_hash_file(hash_file).tag = "Ok"
     /\ parse_hash_file(hash_file).val.algorithm = table.val.algorithm)
    => LET verified == {k \in 1..Len(slots) : slots[k].tag = "Some"}
       IN  /\ (result = Err("NoPasswordsFound")) <=> (verified = {})
           /\ verified # {} => (result.tag = "Ok" /\ output = VerifiedLines(slots, 1))
           /\ \A k \in 1..Len(slots) : slots[k].tag \in {"Some", "Nothing"}

\* C5: when both files are read and the algorithm of the table differs
\* from the algorithm of the hash file, crack ends with AlgorithmMismatch,
\* and it never builds the pool: no search is taken up or finished, for any
\* target, and nothing is written.
C5_MismatchBeforeAnyWork ==
    pc \in {"crack", "crack_work", "cracked"}
    => LET rainbow == parse_rainbow(table_file)
           hash    == parse_hash_file(hash_file)
       IN  (/\ rainbow.tag = "Ok"
            /\ hash.tag = "Ok"
            /\ rainbow.val.algorithm # hash.val.algorithm)
           => /\ pc # "crack_work"
              /\ pc = "cracked" => result = Err("AlgorithmMismatch")
              /\ slots = <<>>
              /\ running = {}
              /\ order = <<>>
              /\ output = <<>>

\* crack has ended with AlgorithmMismatch for a target that a hash file of
\* the table's algorithm would have got cracked
C5_Witness ==
    /\ pc = "cracked"
    /\ result = Err("AlgorithmMismatch")
    /\ table.tag = "Ok"
    /\ parse_hash_file(hash_file).tag = "Ok"
    /\ parse_hash_file(hash_file).val.algorithm # table.val.algorithm
    /\ \E k \in 1..Len(targets) :
           FindMap(compute_hash(targets[k], table.val.algorithm, <<0, k>>),
                   0, table.val, k).tag = "Some"

-----------------------------------------------------------------------------
(* Claims about failing and degenerate generations, checked under SpecGen *)

\* C11: when the computation of a chain has failed with an error,
\* generate_rainbow_table returns that error, one of the errors of the
\* chains, and the output file is not created: no chain is written.
C11_FailFast ==
    (pc = "done" /\ \E k \in 1..Len(slots) : slots[k].tag = "Err")
    => /\ result.tag = "Err"
       /\ \E k \in 1..Len(slots) : slots[k].tag = "Err" /\ result = slots[k]
       /\ table_file = NoFile

\* some line of the password file is not as long as the first
LengthsVary == \E i \in 2..Len(pw_file) : Len(pw_file[i]) # Len(pw_file[1])

\* C12: a generation over a password list in which some password is not as
\* long as the first ends with the error VaryingLengths, and no chain is
\* taken up: no digest is computed.
C12_VaryingLengthsReported ==
    (pc = "done" /\ LengthsVary)
    => /\ result = Err("VaryingLengths")
       /\ slots = <<>>
       /\ order = <<>>
       /\ table_file = NoFile

\* C13: with num_links = 0 the chain of every password p is (p, p), for
\* every charset and offset: each work item ends with (p, p), and for
\* passwords that fit the header the generation succeeds and the record
\* written for p holds p twice.
C13_ZeroLinksChainIsIdentity ==
    (pc \in {"gen_work", "done"} /\ args.num_links = 0)
    => /\ \A k \in 1..Len(slots) :
              slots[k] # NoOutcome => slots[k] = Ok(<<passwords[k], passwords[k]>>)
       /\ (pc = "done" /\ Len(passwords) > 0 /\ Len(passwords[1]) <= U8_MAX)
          => /\ result.tag = "Ok"
             /\ \A k \in 1..Len(passwords) :
                    RecordAt(table_file.bytes, HeaderLen(args.algorithm),
                             Len(passwords[1]), k)
                    = <<passwords[k], passwords[k]>>

\* two chains of no links have been written, with a charset on which any
\* reduction would have panicked
C13_Witness ==
    /\ pc = "done"
    /\ args.num_links = 0
    /\ IsZero(args.charset_size)
    /\ Len(passwords) = 2
    /\ passwords[1] # passwords[2]
    /\ Len(passwords[1]) > 0
    /\ result.tag = "Ok"
    /\ table_file.exists

-----------------------------------------------------------------------------
(* Claim about the arithmetic of reduce, checked under SpecReduce *)

\* the wide integer that (shift-left-8, add-byte) makes of the four digest
\* bytes at the cyclic positions 4k .. 4k+3
FourBytes(hash, k) ==
    ShlAdd(ShlAdd(ShlAdd(ShlAdd(U(0), CycleByte(hash, 4 * k)),
                         CycleByte(hash, 4 * k + 1)),
                  CycleByte(hash, 4 * k + 2)),
           CycleByte(hash, 4 * k + 3))

\* (that integer modulo charset_size) + unicode_offset
StatedCodePoint(hash, k, charset_size, offset) ==
    AddSmall(offset, Rem(FourBytes(hash, k), charset_size[8])).val

\* C15: the code point of every character k of a password that reduce
\* returns is (the four digest bytes at the cyclic positions 4k .. 4k+3,
\* accumulated by shift-left-8 and add-byte, modulo charset_size) +
\* unicode_offset.
C15_CodePointFromFourBytes ==
    (pc = "reduced" /\ r_out.tag = "Ok")
    => \A k \in 0..(r_args.password_length - 1) :
           U(r_out.val[k + 1])
           = StatedCodePoint(r_args.hash, k, r_args.charset_size, r_args.offset)

-----------------------------------------------------------------------------
(* Claims about the order of the search and of the output, checked under Spec *)

\* the digest that c reduce-then-digest cycles make of the digest d, in the
\* search for target k at position i (at = <<k, i>>)
RECURSIVE Cycled(_, _, _, _)
Cycled(d, c, t, at) ==
    IF c = 0 THEN Ok(d)
    ELSE LET before == Cycled(d, c - 1, t, at)
         IN  IF before.tag # "Ok" THEN before
             ELSE LET p == reduce(before.val, t.password_length, t.charset_size, t.offset)
                  IN  IF p.tag # "Ok" THEN p
                      ELSE Ok(compute_hash(p.val, t.algorithm, <<2>> \o at \o <<c - 1>>))

\* the candidate chain-end of target k at position i: i cycles, then one
\* final reduction
CandidateEnd(k, i) ==
    LET d == Cycled(hashes[k], i, table.val, <<k, i>>)
    IN  IF d.tag # "Ok" THEN d
        ELSE reduce(d.val, table.val.password_length, table.val.charset_size,
                    table.val.offset)

\* the candidate chain-end of target k at position i is in the end index
IndexHit(k, i) ==
    /\ CandidateEnd(k, i).tag = "Ok"
    /\ CandidateEnd(k, i).val \in DOMAIN table.val.end_map

\* the cycles, among the num_links - i cycles of the forward replay of the
\* matched start, whose digest equals the target
MatchingCycles(k, i) ==
    LET start == table.val.end_map[CandidateEnd(k, i).val]
    IN  { j \in 0..(table.val.num_links - i - 1) :
            /\ Replayed(start, j, table.val, <<k, i>>).tag = "Ok"
            /\ compute_hash(Replayed(start, j, table.val, <<k, i>>).val,
                            table.val.algorithm, <<3, k, i, j>>) = hashes[k] }

\* the replay at position i succeeds
ReplaySucceeds(k, i) == IndexHit(k, i) /\ MatchingCycles(k, i) # {}

\* the positions whose replay succeeds
SuccessfulPositions(k) ==
    { i \in 0..(table.val.num_links - 1) : ReplaySucceeds(k, i) }

Least(S) == CHOOSE x \in S : \A y \in S : x <= y

\* the plaintext at the first matching cycle of the replay at position i
FirstMatch(k, i) ==
    Replayed(table.val.end_map[CandidateEnd(k, i).val],
             Least(MatchingCycles(k, i)), table.val, <<k, i>>).val

\* the positions the search for target k examines, in their order
PositionsExamined(k) == Scanned(hashes[k], 0, table.val, k)

\* the targets whose search has finished
Searched == {k \in 1..Len(slots) : slots[k] # NoOutcome}

\* C14: for each target searched, the positions examined are 0, 1, 2, ...
\* in ascending order without a gap; a search that yields nothing has
\* examined all num_links positions and none of them has a replay that
\* succeeds; a search that yields a result has stopped at the smallest
\* position whose replay succeeds, and its result is the target with the
\* plaintext of the first cycle of that replay whose digest equals the
\* target.
C14_AscendingScanFirstMatch ==
    (pc \in {"crack_work", "cracked"} /\ table.tag = "Ok")
    => \A k \in Searched :
           /\ Len(PositionsExamined(k)) <= table.val.num_links
           /\ \A j \in 1..Len(PositionsExamined(k)) : PositionsExamined(k)[j] = j - 1
           /\ slots[k].tag = "Nothing"
              => /\ Len(PositionsExamined(k)) = table.val.num_links
                 /\ SuccessfulPositions(k) = {}
           /\ slots[k].tag = "Some"
              => /\ SuccessfulPositions(k) # {}
                 /\ Len(PositionsExamined(k)) = Least(SuccessfulPositions(k)) + 1
                 /\ slots[k].val
                    = <<hashes[k], FirstMatch(k, Least(SuccessfulPositions(k)))>>

\* one target is found at position 1 after an index hit at position 0 whose
\* replay met no equal digest, and another is found at a position that is
\* not the last, in a cycle of the replay that is not the first
C14_Witness ==
    /\ pc = "cracked"
    /\ table.tag = "Ok"
    /\ \E k \in Searched :
           /\ slots[k].tag = "Some"
           /\ PositionsExamined(k) = <<0, 1>>
           /\ IndexHit(k, 0)
           /\ MatchingCycles(k, 0) = {}
    /\ \E k \in Searched :
           /\ slots[k].tag = "Some"
           /\ Len(PositionsExamined(k)) < table.val.num_links
           /\ Least(MatchingCycles(k, Len(PositionsExamined(k)) - 1)) > 0

\* the lines of the targets from number k on whose search has a position
\* with a replay that succeeds, in the order of the targets in the hash file
RECURSIVE ExpectedLines(_)
ExpectedLines(k) ==
    IF k > Len(hashes) THEN <<>>
    ELSE (IF SuccessfulPositions(k) # {}
          THEN <<OutputLine(hashes[k], FirstMatch(k, Least(SuccessfulPositions(k))))>>
          ELSE <<>>)
         \o ExpectedLines(k + 1)

\* C16: the lines crack writes are determined by the table and the hash
\* file alone, whatever the number of threads and the order in which the
\* searches run and finish: a successful crack writes the lines of the
\* targets that can be found, in the order of the targets in the hash file,
\* crack ends with NoPasswordsFound only when there is no such line, and
\* equal target digests get equal search results.
C16_OutputIndependentOfSchedule ==
    (pc = "cracked" /\ table.tag = "Ok" /\ Len(slots) > 0)
    => /\ result.tag = "Ok" => output = ExpectedLines(1)
       /\ result = Err("NoPasswordsFound") => ExpectedLines(1) = <<>>
       /\ result.tag # "Ok" => output = <<>>
       /\ \A j, k \in Searched :
              hashes[j] = hashes[k] => slots[j] = slots[k]

\* two threads have finished the second target before the first, both are
\* found with different plaintexts, and two lines have been written
C16_Witness ==
    /\ pc = "cracked"
    /\ args.threads = 2
    /\ order = <<2, 1>>
    /\ slots[1].tag = "Some"
    /\ slots[2].tag = "Some"
    /\ slots[1].val[2] # slots[2].val[2]
    /\ Len(output) = 2

====
